---- MODULE Spec2Model ----
(***************************************************************************)
(* Model of src/app.py: dijkstra (lazy-deletion uniform-cost search over a *)
(* heap of (cost, node, path) tuples) and find_second_shortest_path (one   *)
(* dijkstra per edge of the primary path, on a copy of the graph with that *)
(* edge removed in both directions).                                       *)
(*                                                                         *)
(* Node labels are modelled by the integers 1..NumNodes, ordered as the    *)
(* strings 'A' < 'B' < ... are ordered by Python; a graph is a function    *)
(* whose DOMAIN is the set of keys of the dict, each key mapped to a       *)
(* function neighbour -> weight.                                           *)
(***************************************************************************)
EXTENDS Integers, Sequences, FiniteSets

VARIABLES graph, pc, op, phase, start, end, graph_copy, heap, visited,
          cost, node, path, ret, shortest_cost, shortest_path,
          second_best_cost, second_best_path, i, result

vars == <<graph, pc, op, phase, start, end, graph_copy, heap, visited,
          cost, node, path, ret, shortest_cost, shortest_path,
          second_best_cost, second_best_path, i, result>>

dvars == <<graph_copy, heap, visited, cost, node, path, ret>>
svars == <<shortest_cost, shortest_path, second_best_cost, second_best_path, i>>

\* ---------------------------------------------------------------- bounds
NumNodes == 4
MaxWeight == 1

\* float('inf'): compares greater than every finite cost of the model
Inf == 1000000

Nodes == 1..NumNodes
Weights == 0..MaxWeight
Pairs == {pr \in Nodes \X Nodes : pr[1] < pr[2]}

\* ---------------------------------------------------------------- graphs
Nbrs(g, u) == IF u \in DOMAIN g THEN DOMAIN g[u] ELSE {}
HasEdge(g, u, v) == u \in DOMAIN g /\ v \in DOMAIN g[u]

\* The dict built from a weighted undirected edge set w (a function on a
\* subset of Pairs) by listing every edge under both endpoints, keeping the
\* entries of the keys K only.
MkGraph(K, w) ==
    [u \in K |->
        [v \in {x \in Nodes : <<u, x>> \in DOMAIN w \/ <<x, u>> \in DOMAIN w} |->
            IF <<u, v>> \in DOMAIN w THEN w[<<u, v>>] ELSE w[<<v, u>>]]]

\* Key sets of the model: every node, or every node but the last, which is
\* then a neighbour without an entry of its own.
KeySets == {Nodes, Nodes \ {NumNodes}}

Graphs == {MkGraph(K, w) : K \in KeySets,
                           w \in UNION {[E -> Weights] : E \in SUBSET Pairs}}

Mirrored(g) == \A u \in DOMAIN g : \A v \in DOMAIN g[u] :
                   HasEdge(g, v, u) /\ g[v][u] = g[u][v]

\* ---------------------------------------------------------------- heap order
Min(a, b) == IF a < b THEN a ELSE b

\* Python's list comparison: the first differing element decides, a proper
\* prefix is smaller.
ListLess(p, q) ==
    \E k \in 1..(Min(Len(p), Len(q)) + 1) :
        /\ \A j \in 1..(k - 1) : p[j] = q[j]
        /\ \/ k = Len(p) + 1 /\ k <= Len(q)
           \/ k <= Len(p) /\ k <= Len(q) /\ p[k] < q[k]

\* Mutant: the entries are compared as (node, cost, path).
TupleLessByNode(a, b) ==
    \/ a.node < b.node
    \/ a.node = b.node /\ a.cost < b.cost
    \/ a.node = b.node /\ a.cost = b.cost /\ ListLess(a.path, b.path)

\* Python's tuple comparison of heap entries (cost, node, path).
TupleLess(a, b) ==
    \/ a.cost < b.cost
    \/ a.cost = b.cost /\ a.node < b.node
    \/ a.cost = b.cost /\ a.node = b.node /\ ListLess(a.path, b.path)

\* Mutant: the greatest entry is extracted.
HeapTopGreatest(h) == CHOOSE a \in h : \A b \in h \ {a} : TupleLess(b, a)

\* heapq.heappop returns the least entry.  Entries of one search have
\* pairwise different paths, so the heap is a set and the least is unique.
HeapTop(h) == CHOOSE a \in h : \A b \in h \ {a} : TupleLess(a, b)

\* Mutant: the start entry carries the empty path.
InitialHeapEmptyPath(s) == {[cost |-> 0, node |-> s, path |-> <<>>]}

\* heap = [(0, start, [start])]
InitialHeap(s) == {[cost |-> 0, node |-> s, path |-> <<s>>]}

\* Mutant: the node is not recorded as visited.
VisitForget(vis, n) == vis

\* visited.add(node)
Visit(vis, n) == vis \cup {n}

\* Mutant: the new cost is the weight of the edge alone.
PushesEdgeWeight(g, top, vis) ==
    {[cost |-> g[top.node][nb], node |-> nb, path |-> Append(top.path, nb)] :
        nb \in Nbrs(g, top.node) \ vis}

\* The entries pushed for the neighbours of top.node that are not in vis.
Pushes(g, top, vis) ==
    {[cost |-> top.cost + g[top.node][nb], node |-> nb, path |-> Append(top.path, nb)] :
        nb \in Nbrs(g, top.node) \ vis}

\* Mutant: the return after the loop gives cost 0.
FinalReturnZero(st) == <<0, <<>>>>

\* Mutant: the return after the loop gives the entry extracted last.
FinalReturnLast(st) == <<st.cost, st.path>>

\* The return after the loop, of the search state st.
FinalReturn(st) == <<Inf, <<>>>>

\* One pass of the while loop of dijkstra on the search state
\* st = [heap, visited, cost, node, path, ret, done]; cost, node and path
\* are the entry extracted last.
DijkstraStep(g, e, st) ==
    IF st.heap = {}
    THEN [st EXCEPT !.ret = FinalReturn(st), !.done = TRUE]
    ELSE LET top == HeapTop(st.heap)
             rest == st.heap \ {top}
             popped == [st EXCEPT !.heap = rest, !.cost = top.cost,
                                  !.node = top.node, !.path = top.path]
         IN  IF top.node = e
             THEN [popped EXCEPT !.ret = <<top.cost, top.path>>, !.done = TRUE]
             ELSE IF top.node \in st.visited
             THEN popped
             ELSE LET vis == Visit(st.visited, top.node) IN
                  [popped EXCEPT !.visited = vis,
                                 !.heap = rest \cup Pushes(g, top, vis)]

\* The search state at the entry of dijkstra(g, s, e).
EntryState(s) ==
    [heap |-> InitialHeap(s), visited |-> {}, cost |-> 0, node |-> s,
     path |-> <<>>, ret |-> <<Inf, <<>>>>, done |-> FALSE]

\* dijkstra(g, s, e) run to its return.
RECURSIVE RunLoop(_, _, _)
RunLoop(g, e, st) == IF st.done THEN st.ret ELSE RunLoop(g, e, DijkstraStep(g, e, st))
Dijkstra(g, s, e) == RunLoop(g, e, EntryState(s))

\* Edge removal of find_second_shortest_path: del g[u][v] when present.
DelEdge(g, u, v) ==
    IF HasEdge(g, u, v)
    THEN [g EXCEPT ![u] = [x \in DOMAIN g[u] \ {v} |-> g[u][x]]]
    ELSE g

\* Mutant: the deletions act on the module's graph (no copy is made).
CopyAndRemoveShared(g, u, v) ==
    [shared |-> DelEdge(DelEdge(g, u, v), v, u),
     copy |-> DelEdge(DelEdge(g, u, v), v, u)]

\* The copy of the loop body and the two deletions; shared is the module's
\* graph after the iteration, copy the graph handed to dijkstra.
CopyAndRemove(g, u, v) ==
    [shared |-> g, copy |-> DelEdge(DelEdge(g, u, v), v, u)]

\* Mutant: the last edge of the path is not tried.
NumEdgesShort(p) == Len(p) - 2

\* range(len(shortest_path) - 1): the number of iterations.
NumEdges(p) == Len(p) - 1

\* Mutant: a candidate of equal cost replaces the best one.
BetterOrEqual(c, p, best_cost, primary) == c <= best_cost /\ p # primary

\* The update of the best alternative after one iteration.
Better(c, p, best_cost, primary) == c < best_cost /\ p # primary

\* ---------------------------------------------------------------- actions
\* No call is running: no local of either function exists.
NoCall(g) ==
    /\ graph = g
    /\ pc = "idle" /\ op = "none" /\ phase = "none"
    /\ start = 1 /\ end = 1
    /\ graph_copy = g
    /\ heap = {} /\ visited = {}
    /\ cost = 0 /\ node = 1 /\ path = <<>>
    /\ ret = <<Inf, <<>>>>
    /\ shortest_cost = Inf /\ shortest_path = <<>>
    /\ second_best_cost = Inf /\ second_best_path = <<>>
    /\ i = 0
    /\ result = <<Inf, <<>>>>

Init == \E g \in Graphs : NoCall(g)

\* Entry of dijkstra(g, s, e): the heap holds the start entry.
EnterDijkstra(g, s) ==
    /\ graph_copy' = g
    /\ heap' = EntryState(s).heap
    /\ visited' = EntryState(s).visited
    /\ cost' = EntryState(s).cost /\ node' = EntryState(s).node
    /\ path' = EntryState(s).path
    /\ ret' = EntryState(s).ret
    /\ pc' = "loop"

\* The locals of find_second_shortest_path before its first assignment.
FreshLocals ==
    /\ shortest_cost' = Inf /\ shortest_path' = <<>>
    /\ second_best_cost' = Inf /\ second_best_path' = <<>>
    /\ i' = 0
    /\ result' = <<Inf, <<>>>>

\* A caller invokes dijkstra(graph, s, e).  Node identifiers range over
\* Nodes and one identifier more, which no graph of the model mentions.
CallShortest ==
    \E s \in 1..(NumNodes + 1), e \in 1..(NumNodes + 1) :
        /\ pc = "idle"
        /\ op' = "shortest_path" /\ phase' = "none"
        /\ start' = s /\ end' = e
        /\ EnterDijkstra(graph, s)
        /\ FreshLocals
        /\ UNCHANGED graph

\* A caller invokes find_second_shortest_path(s, e), which first runs
\* dijkstra on the module's graph.
CallSecond ==
    \E s \in 1..(NumNodes + 1), e \in 1..(NumNodes + 1) :
        /\ pc = "idle"
        /\ op' = "second_best_path" /\ phase' = "primary"
        /\ start' = s /\ end' = e
        /\ EnterDijkstra(graph, s)
        /\ FreshLocals
        /\ UNCHANGED graph

\* The search state held by the variables.
SearchState ==
    [heap |-> heap, visited |-> visited, cost |-> cost, node |-> node,
     path |-> path, ret |-> ret, done |-> FALSE]

\* One pass of the loop on the variables.
LoopPass ==
    /\ LET st == DijkstraStep(graph_copy, end, SearchState) IN
        /\ heap' = st.heap /\ visited' = st.visited
        /\ cost' = st.cost /\ node' = st.node /\ path' = st.path
        /\ ret' = st.ret
        /\ pc' = IF st.done THEN "ret" ELSE "loop"
    /\ UNCHANGED <<graph, op, phase, start, end, graph_copy, svars, result>>

\* while heap: fails, falls through to the final return.
HeapEmpty == pc = "loop" /\ heap = {} /\ LoopPass

\* The extracted entry is the end node: return it.
PopEnd ==
    /\ pc = "loop" /\ heap # {} /\ HeapTop(heap).node = end
    /\ LoopPass

\* The extracted entry is of a visited node: continue.
PopVisited ==
    /\ pc = "loop" /\ heap # {}
    /\ HeapTop(heap).node # end /\ HeapTop(heap).node \in visited
    /\ LoopPass

\* The extracted entry is of a new node: visit it and push its neighbours.
PopExpand ==
    /\ pc = "loop" /\ heap # {}
    /\ HeapTop(heap).node # end /\ HeapTop(heap).node \notin visited
    /\ LoopPass

\* dijkstra returns to the caller of shortest_path.
ReturnShortest ==
    /\ pc = "ret" /\ op = "shortest_path"
    /\ result' = ret
    /\ pc' = "done"
    /\ UNCHANGED <<graph, op, phase, start, end, dvars, svars>>

\* The primary search of find_second_shortest_path returns.
ReturnPrimary ==
    /\ pc = "ret" /\ op = "second_best_path" /\ phase = "primary"
    /\ shortest_cost' = ret[1] /\ shortest_path' = ret[2]
    /\ second_best_cost' = Inf /\ second_best_path' = <<>>
    /\ i' = 0
    /\ IF ret[2] = <<>>
       THEN result' = <<Inf, <<>>>> /\ pc' = "done"
       ELSE result' = result /\ pc' = "for"
    /\ phase' = "for"
    /\ UNCHANGED <<graph, op, start, end, dvars>>

\* One more edge of the primary path: copy, remove, search.
ForNext ==
    /\ pc = "for" /\ i < NumEdges(shortest_path)
    /\ LET r == CopyAndRemove(graph, shortest_path[i + 1], shortest_path[i + 2]) IN
        /\ graph' = r.shared
        /\ EnterDijkstra(r.copy, start)
    /\ phase' = "iter"
    /\ UNCHANGED <<op, start, end, svars, result>>

\* The search of one iteration returns: keep it when it is better.
ReturnIter ==
    /\ pc = "ret" /\ op = "second_best_path" /\ phase = "iter"
    /\ IF Better(ret[1], ret[2], second_best_cost, shortest_path)
       THEN second_best_cost' = ret[1] /\ second_best_path' = ret[2]
       ELSE UNCHANGED <<second_best_cost, second_best_path>>
    /\ i' = i + 1
    /\ pc' = "for" /\ phase' = "for"
    /\ UNCHANGED <<graph, op, start, end, dvars, shortest_cost, shortest_path, result>>

\* The loop is over: return the best alternative.
ForDone ==
    /\ pc = "for" /\ i >= NumEdges(shortest_path)
    /\ result' = <<second_best_cost, second_best_path>>
    /\ pc' = "done"
    /\ UNCHANGED <<graph, op, phase, start, end, dvars, svars>>

\* The caller has the result; the locals of the call are gone.
Collect ==
    /\ pc = "done"
    /\ pc' = "idle" /\ op' = "none" /\ phase' = "none"
    /\ start' = 1 /\ end' = 1
    /\ graph_copy' = graph
    /\ heap' = {} /\ visited' = {}
    /\ cost' = 0 /\ node' = 1 /\ path' = <<>>
    /\ ret' = <<Inf, <<>>>>
    /\ FreshLocals
    /\ UNCHANGED graph

Step == HeapEmpty \/ PopEnd \/ PopVisited \/ PopExpand \/ ReturnShortest
           \/ ReturnPrimary \/ ForNext \/ ReturnIter \/ ForDone

Next == CallShortest \/ CallSecond \/ HeapEmpty \/ PopEnd \/ PopVisited
           \/ PopExpand \/ ReturnShortest \/ ReturnPrimary \/ ForNext
           \/ ReturnIter \/ ForDone \/ Collect

Spec == Init /\ [][Next]_vars

\* Both operations are synchronous: a call that has begun keeps running.
FairSpec == Spec /\ WF_vars(Step)
\* ---------------------------------------------------------------- reference
Last(p) == p[Len(p)]
Range(p) == {p[k] : k \in 1..Len(p)}

\* Brute-force enumeration of the simple paths of g that start at s.
RECURSIVE Extend(_, _, _)
Extend(g, S, k) ==
    IF k = 0 THEN S
    ELSE Extend(g, S \cup UNION {{Append(p, v) : v \in Nbrs(g, Last(p)) \ Range(p)} : p \in S},
                k - 1)
SimplePaths(g, s, e) == {p \in Extend(g, {<<s>>}, NumNodes) : Last(p) = e}

RECURSIVE PathCost(_, _)
PathCost(g, p) ==
    IF Len(p) <= 1 THEN 0
    ELSE g[p[1]][p[2]] + PathCost(g, Tail(p))

IsPath(g, p) == \A k \in 1..(Len(p) - 1) : HasEdge(g, p[k], p[k + 1])

\* The least cost of the paths of P in g, Inf when there is none.
MinCostOf(g, P) ==
    IF P = {} THEN Inf
    ELSE CHOOSE c \in {PathCost(g, p) : p \in P} :
             \A d \in {PathCost(g, p) : p \in P} : c <= d
MinCost(g, s, e) == MinCostOf(g, SimplePaths(g, s, e))

ShortestDone == pc = "done" /\ op = "shortest_path"
SecondDone == pc = "done" /\ op = "second_best_path"

\* ---------------------------------------------------------------- C1
\* C1: when end is reachable from start, shortest_path returns (c, p) where
\* p starts at start, ends at end, follows edges of the graph, c is the sum
\* of their weights, and c is the least cost of all simple paths.
C1_ShortestIsMinimal ==
    (ShortestDone /\ SimplePaths(graph, start, end) # {}) =>
        /\ result[2] # <<>>
        /\ result[2][1] = start
        /\ Last(result[2]) = end
        /\ IsPath(graph, result[2])
        /\ result[1] = PathCost(graph, result[2])
        /\ result[1] = MinCost(graph, start, end)

\* A three-edge shortest path chosen although a direct, dearer edge exists.
C1_Witness ==
    /\ ShortestDone /\ Len(result[2]) = 4
    /\ HasEdge(graph, start, end)
    /\ graph[start][end] > result[1]

\* ---------------------------------------------------------------- C4
\* C4: when no path leads from start to end, shortest_path returns infinite
\* cost with the empty path; and in every result the cost is infinite
\* exactly when the path is empty.
C4_UnreachableResult ==
    ShortestDone =>
        /\ SimplePaths(graph, start, end) = {} => result = <<Inf, <<>>>>
        /\ (result[1] = Inf) <=> (result[2] = <<>>)

\* Both endpoints have entries and edges, in different components.
C4_Witness ==
    /\ ShortestDone /\ result = <<Inf, <<>>>>
    /\ start \in DOMAIN graph /\ end \in DOMAIN graph
    /\ DOMAIN graph[start] # {} /\ DOMAIN graph[end] # {}
    /\ Cardinality(visited) = 2

\* ---------------------------------------------------------------- C5
\* C5 as stated: whenever start or end has no entry in the graph,
\* shortest_path returns the unreachable result.
C5_AbsentIsUnreachable ==
    (ShortestDone /\ (start \notin DOMAIN graph \/ end \notin DOMAIN graph)) =>
        result = <<Inf, <<>>>>

\* Some entry of the graph lists n as a neighbour.
Listed(g, n) == \E u \in DOMAIN g : n \in DOMAIN g[u]

\* C5 amended: with start # end, shortest_path returns the unreachable
\* result whenever start has no entry, and whenever end has no entry and no
\* entry lists it as a neighbour; with start = end it returns (0, [start])
\* also for a node without an entry.
C5_AbsentAmended ==
    (ShortestDone /\ (start \notin DOMAIN graph \/ end \notin DOMAIN graph)) =>
        /\ (start # end /\ (start \notin DOMAIN graph \/ ~Listed(graph, end)))
               => result = <<Inf, <<>>>>
        /\ start = end => result = <<0, <<start>>>>

\* The start has no entry although entries list it, and the end has one.
C5_Witness ==
    /\ ShortestDone /\ start \notin DOMAIN graph /\ Listed(graph, start)
    /\ end \in DOMAIN graph /\ HasEdge(graph, end, start)
    /\ result = <<Inf, <<>>>>

\* ---------------------------------------------------------------- C6
\* C6: shortest_path(g, s, s) returns cost 0 and the path [s], and no node
\* was expanded.
C6_StartIsEnd ==
    (ShortestDone /\ start = end) => (result = <<0, <<start>>>> /\ visited = {})

\* The start has neighbours at weight 0, none of which was pushed.
C6_Witness ==
    /\ ShortestDone /\ start = end /\ start \in DOMAIN graph
    /\ \E v \in DOMAIN graph[start] : graph[start][v] = 0
    /\ result = <<0, <<start>>>> /\ heap = {}
\* ---------------------------------------------------------------- C2
\* C2: a non-empty path returned by second_best_path differs from the path
\* of shortest_path on the same graph and endpoints, and its cost is not
\* below the cost of shortest_path.
C2_SecondDiffers ==
    (SecondDone /\ result[2] # <<>>) =>
        /\ result[2] # Dijkstra(graph, start, end)[2]
        /\ result[1] >= Dijkstra(graph, start, end)[1]

\* The alternative costs exactly as much as the primary path.
C2_Witness ==
    /\ SecondDone /\ result[2] # <<>>
    /\ result[1] = shortest_cost /\ result[1] > 0
    /\ Len(result[2]) # Len(shortest_path)

\* ---------------------------------------------------------------- C3
\* The graph g without the entries u -> v and v -> u.
Without(g, u, v) ==
    [a \in DOMAIN g |->
        [b \in {x \in DOMAIN g[a] : <<a, x>> \notin {<<u, v>>, <<v, u>>}} |-> g[a][b]]]

\* The result of shortest_path with edge k of the path p removed.
Candidate(g, s, e, p, k) == Dijkstra(Without(g, p[k], p[k + 1]), s, e)

\* The edges of p whose candidate is a path other than p.
Qualifying(g, s, e, p) ==
    {k \in 1..(Len(p) - 1) :
        /\ Candidate(g, s, e, p, k)[2] # <<>>
        /\ Candidate(g, s, e, p, k)[2] # p}

\* C3: second_best_path returns the least-cost candidate among the results
\* of shortest_path on the graph without one edge of the primary path,
\* candidates equal to the primary path excluded, the earliest edge winning
\* on equal cost; and the unreachable result when the primary is unreachable
\* or no candidate qualifies.
C3_SecondIsBestCandidate ==
    SecondDone =>
        LET p == Dijkstra(graph, start, end)[2]
            Q == Qualifying(graph, start, end, p)
        IN  IF p = <<>> \/ Q = {}
            THEN result = <<Inf, <<>>>>
            ELSE \E k \in Q :
                    /\ result = Candidate(graph, start, end, p, k)
                    /\ \A j \in Q : Candidate(graph, start, end, p, j)[1] >= result[1]
                    /\ \A j \in Q : j < k => Candidate(graph, start, end, p, j)[1] > result[1]

\* Two edges of the primary path give different candidates of equal cost,
\* and the earlier one is returned.
C3_Witness ==
    /\ SecondDone /\ result[2] # <<>>
    /\ \E j, k \in Qualifying(graph, start, end, shortest_path) :
          /\ j < k
          /\ Candidate(graph, start, end, shortest_path, j) = result
          /\ Candidate(graph, start, end, shortest_path, k)[1] = result[1]
          /\ Candidate(graph, start, end, shortest_path, k)[2] # result[2]

\* ---------------------------------------------------------------- C7
\* The graph searched in an iteration is the module's graph without the
\* one edge of that iteration; every other search is on the graph itself.
CopyIsLocal ==
    pc \in {"loop", "ret"} =>
        IF phase = "iter"
        THEN graph_copy = Without(graph, shortest_path[i + 1], shortest_path[i + 2])
        ELSE graph_copy = graph

\* C7: no step of shortest_path or second_best_path changes the module's
\* graph, and every iteration of second_best_path removes its edge from a
\* copy of the full graph.
C7_GraphUnchanged == [][graph' = graph]_vars /\ []CopyIsLocal

\* The second iteration searches a copy that has the first edge again.
C7_Witness ==
    /\ pc = "loop" /\ phase = "iter" /\ i = 1
    /\ HasEdge(graph_copy, shortest_path[1], shortest_path[2])
    /\ ~HasEdge(graph_copy, shortest_path[2], shortest_path[3])
    /\ HasEdge(graph, shortest_path[2], shortest_path[3])

\* ---------------------------------------------------------------- C10
\* C10: on a mirrored graph with start # end, the cost returned by
\* second_best_path is the least cost of all simple paths from start to end
\* other than the primary path, infinite exactly when there is none.
C10_SecondIsTrueSecond ==
    (SecondDone /\ Mirrored(graph) /\ start # end) =>
        result[1] = MinCostOf(graph, SimplePaths(graph, start, end) \ {shortest_path})

\* A mirrored graph where the best alternative shares an edge with the
\* primary path and is dearer.
C10_Witness ==
    /\ SecondDone /\ Mirrored(graph) /\ start # end
    /\ result[2] # <<>> /\ result[1] > shortest_cost
    /\ Len(shortest_path) >= 3 /\ Len(result[2]) >= 3
    /\ result[2][2] = shortest_path[2]
\* ---------------------------------------------------------------- C8
\* The nodes a search may still finalize: every identifier not yet visited.
Unvisited(vis) == Cardinality((1..(NumNodes + 1)) \ vis)
Running == pc \in {"loop", "ret", "for"}

\* A pass of the while loop returns, or finalizes a node that was not
\* visited, or removes one entry and pushes none; entries are pushed only by
\* a pass that finalizes a node.
LoopVariant ==
    pc = "loop" =>
        /\ visited \subseteq visited'
        /\ \/ pc' = "ret"
           \/ Unvisited(visited') < Unvisited(visited)
           \/ visited' = visited /\ Cardinality(heap') < Cardinality(heap)
        /\ (heap' \ heap # {}) => Cardinality(visited') = Cardinality(visited) + 1

\* The for loop of second_best_path advances through the primary path.
ForVariant ==
    (pc = "ret" /\ phase = "iter") => (i' = i + 1 /\ i' <= Len(shortest_path) - 1)

\* C8: every call of shortest_path and of second_best_path returns: each
\* pass of a search finalizes a new node or shrinks the frontier, each
\* iteration of second_best_path advances along the primary path, and a
\* running call reaches its return.
C8_Terminates ==
    /\ [][LoopVariant /\ ForVariant]_vars
    /\ Running ~> (pc = "done")

\* A search of second_best_path has visited every node of the graph and
\* still holds stale entries.
C8_Witness ==
    /\ pc = "loop" /\ op = "second_best_path" /\ phase = "iter"
    /\ visited = Nodes \ {end}
    /\ \E a \in heap : a.node \in visited

\* ---------------------------------------------------------------- C9
\* The entry extracted by the pass that leads to the next state.
Extracted == [cost |-> cost', node |-> node', path |-> path']

\* What holds of the entry extracted by one pass of the loop.
PopInvariant ==
    (pc = "loop" /\ heap # {}) =>
        /\ Extracted \in heap
        /\ cost' >= cost
        /\ visited' # visited =>
              /\ node' \notin visited /\ visited' = visited \cup {node'}
              /\ cost' = MinCost(graph_copy, start, node')
              /\ path' \in SimplePaths(graph_copy, start, node')
              /\ PathCost(graph_copy, path') = cost'
        /\ node' \in visited =>
              /\ cost' >= MinCost(graph_copy, start, node')
              /\ heap' = heap \ {Extracted}
              /\ visited' = visited

\* C9: the entry extracted when a node is finalized has the least cost of
\* any path from start to the node and carries a simple path of that cost;
\* an entry extracted for a finalized node costs no less and is dropped
\* without a push; extracted costs never decrease.
C9_FinalizedIsMinimal == [][PopInvariant]_vars

\* A stale entry of a finalized node has been extracted at a higher cost
\* than the node's least cost, and the search goes on.
C9_Witness ==
    /\ pc = "loop" /\ node \in visited /\ node # start /\ path # <<>>
    /\ [cost |-> cost, node |-> node, path |-> path] \notin heap
    /\ cost > MinCost(graph_copy, start, node)
    /\ Len(path) >= 3
    /\ heap # {}
====
